---- MODULE Spec2Model ----
(***************************************************************************)
(* Lending chaincode (chaincode/lendingChaincode.go): the loan lifecycle   *)
(* and the token balances it moves, over the single key-value world state  *)
(* of the host ledger.                                                     *)
(*                                                                         *)
(* Loans and token balances live in the SAME key space: PutState(loanID,   *)
(* loanJSON) and PutState(account, balanceJSON) write to one map, and      *)
(* GetLoan / GetBalance decode whatever bytes the key holds.               *)
(*                                                                         *)
(* Every operation of the contract is a pure operator from the committed   *)
(* world state to a result [err, writes, ret]: the error it returns, the   *)
(* PutState calls it has issued up to that point, in order, and the value  *)
(* it returns.  The host commits the writes of an invocation only when it  *)
(* returns no error.                                                       *)
(*                                                                         *)
(* float64 amounts are modelled as integers: every amount, balance and     *)
(* product the input sets below can produce is an integer below 2^53 and   *)
(* amount * (1 + interestRate/100) is exact in float64 for them.           *)
(***************************************************************************)
EXTENDS Integers, Sequences, FiniteSets, TLC

\* ---------------------------------------------------------------- bounds
\* number of invocations submitted to the host
MaxTx == 5
\* number of invocations submitted concurrently, and how many of them may be
\* waiting for the ordering service at once
MaxSubmit == 2
MaxPending == 2

\* ---------------------------------------------------------------- inputs
\* keys of the world state
Keys == {"L1", "L2", "B1", "RBI", "HDFC", "SBI"}
\* loanID arguments
LoanArgs == {"L1", "L2", "HDFC"}
\* borrowerID arguments
BorrowerArgs == {"B1", "HDFC", "L2"}
\* lenderID arguments
LenderArgs == {"HDFC", "B1"}
\* account arguments of GetBalance
AccountArgs == {"HDFC", "B1"}
\* amount arguments of RequestLoan
LoanAmounts == {1000, -1000}
\* interestRate arguments of RequestLoan
Rates == {10}
\* duration arguments of RequestLoan
Durations == {12}
\* amount arguments of RepayLoan
RepayAmounts == {1100, 1000, 1200, -100}
\* collateral arguments of RequestLoan
Collaterals == {"car"}
\* collateral arguments of AddCollateral
NewCollaterals == {"gold"}
\* arguments of the concurrent invocations
RaceLoans == {"L1", "L2"}
RaceLenders == {"HDFC", "B1"}
RaceAmounts == {1100, 1000}

\* ---------------------------------------------------------------- records
\* a key with no value: GetState returns nil
Absent == [kind |-> "absent"]

\* the JSON of a TokenBalance
TokenBalance(account, balance) ==
  [kind |-> "balance", account |-> account, balance |-> balance]

\* the JSON of a Loan
Loan(loanId, borrowerId, lenderId, amount, interestRate, duration, status, disbursementDate, repaymentDue, remainingBalance, collateral, defaulted, auditHistory, createdAt, dueDate) ==
  [kind |-> "loan", loanId |-> loanId, borrowerId |-> borrowerId,
   lenderId |-> lenderId, amount |-> amount, interestRate |-> interestRate,
   duration |-> duration, status |-> status,
   disbursementDate |-> disbursementDate, repaymentDue |-> repaymentDue,
   remainingBalance |-> remainingBalance, collateral |-> collateral,
   defaulted |-> defaulted, auditHistory |-> auditHistory,
   createdAt |-> createdAt, dueDate |-> dueDate]

\* var loan Loan: what json.Unmarshal fills when the bytes carry none of the
\* Loan fields (the bytes of a TokenBalance)
\* Timestamps are the host's seconds, 0 standing for the empty string.
NoDate == [from |-> 0, months |-> 0]
ZeroLoan ==
  Loan("", "", "", 0, 0, 0, "", 0, 0, 0, "", FALSE, <<>>, 0, NoDate)

\* one fmt.Sprintf line of the audit history: the event text, the party or
\* text it names, the amount it prints and the transaction id
AuditEntry(event, arg, amount, txid) ==
  [event |-> event, arg |-> arg, amount |-> amount, txid |-> txid]

\* results of an operation
Ok(writes, ret) == [err |-> "none", writes |-> writes, ret |-> ret]
Fail(err) == [err |-> err, writes |-> <<>>, ret |-> "none"]

\* ctx.GetStub().PutState(key, value)
PutState(key, value) == [key |-> key, val |-> value]

\* the host applies the write set of a successful invocation, in order
RECURSIVE Commit(_, _)
Commit(w, writes) ==
  IF writes = <<>> THEN w
  ELSE Commit([w EXCEPT ![Head(writes).key] = Head(writes).val], Tail(writes))

\* ---------------------------------------------------------------- helpers
\* LoanExists: any bytes under the key count
LoanExists(w, loanID) == w[loanID] # Absent

\* GetLoan: nil is an error, anything else is decoded into a Loan
GetLoan(w, loanID) ==
  IF w[loanID] = Absent THEN Fail("NotFound")
  ELSE IF w[loanID].kind = "loan" THEN Ok(<<>>, w[loanID])
  ELSE Ok(<<>>, ZeroLoan)

\* GetBalance: nil is an error, anything else is decoded into a TokenBalance
\* (the bytes of a Loan carry no "balance" field: 0)
GetBalance(w, account) ==
  IF w[account] = Absent THEN Fail("NotFound")
  ELSE IF w[account].kind = "balance" THEN Ok(<<>>, w[account].balance)
  ELSE Ok(<<>>, 0)

\* UpdateBalance
UpdateBalance(account, newBalance) ==
  PutState(account, TokenBalance(account, newBalance))

\* TransferTokens without the sufficient-funds check
TransferTokens_NoFundsCheck(w, from, to, amount) ==
  LET fromBalance == GetBalance(w, from)
      toRead == GetBalance(w, to)
      toBalance == IF toRead.err # "none" THEN 0 ELSE toRead.ret
  IN IF fromBalance.err # "none" THEN Fail(fromBalance.err)
     ELSE Ok(<<UpdateBalance(from, fromBalance.ret - amount),
               UpdateBalance(to, toBalance + amount)>>, "none")

\* TransferTokens failing on a recipient without a record
TransferTokens_NoAutoCreate(w, from, to, amount) ==
  LET fromBalance == GetBalance(w, from)
      toRead == GetBalance(w, to)
  IN IF fromBalance.err # "none" THEN Fail(fromBalance.err)
     ELSE IF fromBalance.ret < amount THEN Fail("InsufficientFunds")
     ELSE IF toRead.err # "none" THEN Fail(toRead.err)
     ELSE Ok(<<UpdateBalance(from, fromBalance.ret - amount),
               UpdateBalance(to, toRead.ret + amount)>>, "none")

\* TransferTokens: both balances are read before either is written
TransferTokens(w, from, to, amount) ==
  LET fromBalance == GetBalance(w, from)
      toRead == GetBalance(w, to)
      toBalance == IF toRead.err # "none" THEN 0 ELSE toRead.ret
  IN IF fromBalance.err # "none" THEN Fail(fromBalance.err)
     ELSE IF fromBalance.ret < amount THEN Fail("InsufficientFunds")
     ELSE Ok(<<UpdateBalance(from, fromBalance.ret - amount),
               UpdateBalance(to, toBalance + amount)>>, "none")

\* amount * (1 + interestRate/100)
RepaymentDue(amount, interestRate) == (amount * (100 + interestRate)) \div 100

\* ---------------------------------------------------------------- operations
InitLedger ==
  Ok(<<PutState("RBI", TokenBalance("RBI", 1000000)),
       PutState("HDFC", TokenBalance("HDFC", 500000)),
       PutState("SBI", TokenBalance("SBI", 500000))>>, "none")

\* RequestLoan without the LoanExists check
RequestLoan_NoExistsCheck(w, loanID, borrowerID, amount, interestRate, duration, collateral, txid) ==
  Ok(<<PutState(loanID,
         Loan(loanID, borrowerID, "", amount, interestRate, duration,
              "PENDING", 0, RepaymentDue(amount, interestRate),
              RepaymentDue(amount, interestRate), collateral, FALSE,
              <<AuditEntry("Loan requested by", borrowerID, 0, txid)>>,
              txid, [from |-> txid, months |-> duration]))>>, "none")

RequestLoan(w, loanID, borrowerID, amount, interestRate, duration, collateral, txid) ==
  IF LoanExists(w, loanID) THEN Fail("AlreadyExists")
  ELSE Ok(<<PutState(loanID,
              Loan(loanID, borrowerID, "", amount, interestRate, duration,
                   "PENDING", 0, RepaymentDue(amount, interestRate),
                   RepaymentDue(amount, interestRate), collateral, FALSE,
                   <<AuditEntry("Loan requested by", borrowerID, 0, txid)>>,
                   txid, [from |-> txid, months |-> duration]))>>, "none")

\* ApproveLoan without the look at the lender's balance
ApproveLoan_NoBalanceCheck(w, loanID, lenderID, txid) ==
  LET got == GetLoan(w, loanID)
      loan == got.ret
  IN IF got.err # "none" THEN Fail(got.err)
     ELSE IF loan.status # "PENDING" THEN Fail("InvalidStateTransition")
     ELSE Ok(<<PutState(loanID,
                 [loan EXCEPT !.lenderId = lenderID,
                              !.status = "APPROVED",
                              !.auditHistory = Append(@,
                                 AuditEntry("Loan approved by", lenderID, 0, txid))])>>,
             "none")

ApproveLoan(w, loanID, lenderID, txid) ==
  LET got == GetLoan(w, loanID)
      loan == got.ret
      lenderBalance == GetBalance(w, lenderID)
  IN IF got.err # "none" THEN Fail(got.err)
     ELSE IF loan.status # "PENDING" THEN Fail("InvalidStateTransition")
     ELSE IF lenderBalance.err # "none" THEN Fail(lenderBalance.err)
     ELSE IF lenderBalance.ret < loan.amount THEN Fail("InsufficientFunds")
     ELSE Ok(<<PutState(loanID,
                 [loan EXCEPT !.lenderId = lenderID,
                              !.status = "APPROVED",
                              !.auditHistory = Append(@,
                                 AuditEntry("Loan approved by", lenderID, 0, txid))])>>,
             "none")

\* DisburseLoan persisting the ACTIVE loan before the transfer is attempted
DisburseLoan_WriteFirst(w, loanID, txid) ==
  LET got == GetLoan(w, loanID)
      loan == got.ret
      transfer == TransferTokens(w, loan.lenderId, loan.borrowerId, loan.amount)
      put == PutState(loanID,
                 [loan EXCEPT !.status = "ACTIVE",
                              !.disbursementDate = txid,
                              !.auditHistory = Append(@,
                                 AuditEntry("Loan disbursed", "", 0, txid))])
  IN IF got.err # "none" THEN Fail(got.err)
     ELSE IF loan.status # "APPROVED" THEN Fail("InvalidStateTransition")
     ELSE IF transfer.err # "none"
          THEN [err |-> transfer.err, writes |-> <<put>>, ret |-> "none"]
     ELSE Ok(<<put>> \o transfer.writes, "none")

\* DisburseLoan without the status check (a loan nobody approved has no
\* lender account to debit)
DisburseLoan_NoStatusCheck(w, loanID, txid) ==
  LET got == GetLoan(w, loanID)
      loan == got.ret
      transfer == TransferTokens(w, loan.lenderId, loan.borrowerId, loan.amount)
  IN IF got.err # "none" THEN Fail(got.err)
     ELSE IF loan.lenderId = "" THEN Fail("NotFound")
     ELSE IF transfer.err # "none" THEN Fail(transfer.err)
     ELSE Ok(Append(transfer.writes,
               PutState(loanID,
                 [loan EXCEPT !.status = "ACTIVE",
                              !.disbursementDate = txid,
                              !.auditHistory = Append(@,
                                 AuditEntry("Loan disbursed", "", 0, txid))])),
             "none")

DisburseLoan(w, loanID, txid) ==
  LET got == GetLoan(w, loanID)
      loan == got.ret
      transfer == TransferTokens(w, loan.lenderId, loan.borrowerId, loan.amount)
  IN IF got.err # "none" THEN Fail(got.err)
     ELSE IF loan.status # "APPROVED" THEN Fail("InvalidStateTransition")
     ELSE IF transfer.err # "none" THEN Fail(transfer.err)
     ELSE Ok(Append(transfer.writes,
               PutState(loanID,
                 [loan EXCEPT !.status = "ACTIVE",
                              !.disbursementDate = txid,
                              !.auditHistory = Append(@,
                                 AuditEntry("Loan disbursed", "", 0, txid))])),
             "none")

\* RepayLoan without the check against the remaining balance
RepayLoan_NoExceedCheck(w, loanID, amount, txid) ==
  LET got == GetLoan(w, loanID)
      loan == got.ret
      transfer == TransferTokens(w, loan.borrowerId, loan.lenderId, amount)
      remaining == loan.remainingBalance - amount
  IN IF got.err # "none" THEN Fail(got.err)
     ELSE IF loan.status # "ACTIVE" THEN Fail("InvalidStateTransition")
     ELSE IF transfer.err # "none" THEN Fail(transfer.err)
     ELSE Ok(Append(transfer.writes,
               PutState(loanID,
                 [loan EXCEPT !.remainingBalance = remaining,
                              !.status = IF remaining <= 0 THEN "REPAID" ELSE @,
                              !.auditHistory = Append(@,
                                 AuditEntry("Repayment of", "", amount, txid))])),
             "none")

RepayLoan(w, loanID, amount, txid) ==
  LET got == GetLoan(w, loanID)
      loan == got.ret
      transfer == TransferTokens(w, loan.borrowerId, loan.lenderId, amount)
      remaining == loan.remainingBalance - amount
  IN IF got.err # "none" THEN Fail(got.err)
     ELSE IF loan.status # "ACTIVE" THEN Fail("InvalidStateTransition")
     ELSE IF amount > loan.remainingBalance THEN Fail("InvalidAmount")
     ELSE IF transfer.err # "none" THEN Fail(transfer.err)
     ELSE Ok(Append(transfer.writes,
               PutState(loanID,
                 [loan EXCEPT !.remainingBalance = remaining,
                              !.status = IF remaining <= 0 THEN "REPAID" ELSE @,
                              !.auditHistory = Append(@,
                                 AuditEntry("Repayment of", "", amount, txid))])),
             "none")

\* MarkAsDefaulted without the status check
MarkAsDefaulted_NoStatusCheck(w, loanID, txid) ==
  LET got == GetLoan(w, loanID)
      loan == got.ret
  IN IF got.err # "none" THEN Fail(got.err)
     ELSE Ok(<<PutState(loanID,
                 [loan EXCEPT !.status = "DEFAULTED",
                              !.defaulted = TRUE,
                              !.auditHistory = Append(@,
                                 AuditEntry("Loan marked as defaulted", "", 0, txid))])>>,
             "none")

MarkAsDefaulted(w, loanID, txid) ==
  LET got == GetLoan(w, loanID)
      loan == got.ret
  IN IF got.err # "none" THEN Fail(got.err)
     ELSE IF loan.status # "ACTIVE" THEN Fail("InvalidStateTransition")
     ELSE Ok(<<PutState(loanID,
                 [loan EXCEPT !.status = "DEFAULTED",
                              !.defaulted = TRUE,
                              !.auditHistory = Append(@,
                                 AuditEntry("Loan marked as defaulted", "", 0, txid))])>>,
             "none")

AddCollateral(w, loanID, collateral, txid) ==
  LET got == GetLoan(w, loanID)
      loan == got.ret
  IN IF got.err # "none" THEN Fail(got.err)
     ELSE Ok(<<PutState(loanID,
                 [loan EXCEPT !.collateral = collateral,
                              !.auditHistory = Append(@,
                                 AuditEntry("Collateral added:", collateral, 0, txid))])>>,
             "none")

GetLoanHistory(w, loanID) ==
  LET got == GetLoan(w, loanID)
  IN IF got.err # "none" THEN Fail(got.err) ELSE Ok(<<>>, got.ret.auditHistory)

CheckLoanStatus(w, loanID) ==
  LET got == GetLoan(w, loanID)
  IN IF got.err # "none" THEN Fail(got.err) ELSE Ok(<<>>, got.ret.status)

\* ---------------------------------------------------------------- state
\* world: the committed world state;  txSeq: the number of invocations
\* submitted so far;  last: the latest invocation: the operation, the key it
\* addresses, the lender or amount argument that decides its result, the
\* error it returned and the PutState calls it issued
\* pending: the invocations simulated but not yet ordered, each with the
\* versions of the keys it read and the writes it proposes;  version: how
\* often each key was written by a committed transaction
VARIABLES world, txSeq, last, pending, version
vars == <<world, txSeq, last, pending, version>>

\* GetTxID() and GetTxTimestamp(): assigned by the host and never read back
\* by the contract, which only prints them into the records it writes
TxID == 1

Invocation(op, key, party, amount, r) ==
  [op |-> op, key |-> key, party |-> party, amount |-> amount,
   err |-> r.err, writes |-> r.writes]

\* One invocation: the host commits its write set only if it returned no error
Invoke(op, key, party, amount, r) ==
  /\ txSeq < MaxTx
  /\ world' = IF r.err = "none" THEN Commit(world, r.writes) ELSE world
  /\ txSeq' = txSeq + 1
  /\ last' = Invocation(op, key, party, amount, r)
  /\ UNCHANGED <<pending, version>>

Init ==
  /\ world = [k \in Keys |-> Absent]
  /\ txSeq = 0
  /\ last = Invocation("none", "", "", 0, Ok(<<>>, "none"))
  /\ pending = <<>>
  /\ version = [k \in Keys |-> 0]

InvokeInitLedger == Invoke("InitLedger", "", "", 0, InitLedger)

InvokeRequestLoan ==
  \E loanID \in LoanArgs, borrowerID \in BorrowerArgs, amount \in LoanAmounts,
     interestRate \in Rates, duration \in Durations, collateral \in Collaterals :
    Invoke("RequestLoan", loanID, "", 0,
           RequestLoan(world, loanID, borrowerID, amount, interestRate,
                       duration, collateral, TxID))

InvokeApproveLoan ==
  \E loanID \in LoanArgs, lenderID \in LenderArgs :
    Invoke("ApproveLoan", loanID, lenderID, 0,
           ApproveLoan(world, loanID, lenderID, TxID))

InvokeDisburseLoan ==
  \E loanID \in LoanArgs :
    Invoke("DisburseLoan", loanID, "", 0, DisburseLoan(world, loanID, TxID))

InvokeRepayLoan ==
  \E loanID \in LoanArgs, amount \in RepayAmounts :
    Invoke("RepayLoan", loanID, "", amount, RepayLoan(world, loanID, amount, TxID))

InvokeMarkAsDefaulted ==
  \E loanID \in LoanArgs :
    Invoke("MarkAsDefaulted", loanID, "", 0, MarkAsDefaulted(world, loanID, TxID))

InvokeAddCollateral ==
  \E loanID \in LoanArgs, collateral \in NewCollaterals :
    Invoke("AddCollateral", loanID, "", 0,
           AddCollateral(world, loanID, collateral, TxID))

InvokeGetLoan ==
  \E loanID \in LoanArgs :
    Invoke("GetLoan", loanID, "", 0, GetLoan(world, loanID))

InvokeGetLoanHistory ==
  \E loanID \in LoanArgs :
    Invoke("GetLoanHistory", loanID, "", 0, GetLoanHistory(world, loanID))

InvokeCheckLoanStatus ==
  \E loanID \in LoanArgs :
    Invoke("CheckLoanStatus", loanID, "", 0, CheckLoanStatus(world, loanID))

InvokeGetBalance ==
  \E account \in AccountArgs :
    Invoke("GetBalance", account, "", 0, GetBalance(world, account))

Next ==
  \/ InvokeInitLedger
  \/ InvokeRequestLoan
  \/ InvokeApproveLoan
  \/ InvokeDisburseLoan
  \/ InvokeRepayLoan
  \/ InvokeMarkAsDefaulted
  \/ InvokeAddCollateral
  \/ InvokeGetLoan
  \/ InvokeGetLoanHistory
  \/ InvokeCheckLoanStatus
  \/ InvokeGetBalance

Spec == Init /\ [][Next]_vars

TypeOK ==
  /\ txSeq \in 0..MaxTx
  /\ \A k \in Keys : world[k].kind \in {"absent", "balance", "loan"}

\* ---------------------------------------------------------------- properties
\* the balance an account holds: 0 when the key holds no TokenBalance
BalanceOf(w, k) == IF w[k].kind = "balance" THEN w[k].balance ELSE 0

\* the loan the latest invocation addressed, as it was read from w
LoanRead(w, k) == GetLoan(w, k).ret

\* the latest invocation addressed an existing record
Addressed(w, k) == k \in Keys /\ GetLoan(w, k).err = "none"

\* the edges of the loan state machine
Edges ==
  {<<"PENDING", "APPROVED">>, <<"APPROVED", "ACTIVE">>,
   <<"ACTIVE", "REPAID">>, <<"ACTIVE", "DEFAULTED">>}

\* the status every lifecycle operation requires
Required ==
  [ApproveLoan |-> "PENDING", DisburseLoan |-> "APPROVED",
   RepayLoan |-> "ACTIVE", MarkAsDefaulted |-> "ACTIVE"]

\* C1: every loan record satisfies 0 <= remainingBalance <= repaymentDue.
C1_RemainingWithinDue ==
  \A k \in Keys :
    world[k].kind = "loan" =>
      /\ 0 <= world[k].remainingBalance
      /\ world[k].remainingBalance <= world[k].repaymentDue

\* C2: every change of the status read under a loan's key is one of the
\* edges PENDING->APPROVED, APPROVED->ACTIVE, ACTIVE->REPAID,
\* ACTIVE->DEFAULTED.
C2_StatusEdges ==
  [][\A k \in Keys :
       world[k].kind = "loan" =>
         \/ CheckLoanStatus(world', k).ret = world[k].status
         \/ <<world[k].status, CheckLoanStatus(world', k).ret>> \in Edges]_vars

\* C3: every account balance is >= 0, and a transfer whose amount exceeds the
\* source's balance is rejected without a write.
C3_BalancesNonNegative ==
  /\ \A k \in Keys : world[k].kind = "balance" => world[k].balance >= 0
  /\ \A from \in Keys, to \in Keys, amount \in LoanAmounts \cup RepayAmounts :
       (GetBalance(world, from).err = "none"
          /\ amount > GetBalance(world, from).ret)
       => TransferTokens(world, from, to, amount) = Fail("InsufficientFunds")

\* C4: a repayment of a non-positive amount, and the disbursement of a loan
\* whose principal is non-positive, is never executed: the invocation fails
\* and the world state is unchanged.
C4_NonPositiveRejected ==
  [][/\ (last'.op = "RepayLoan" /\ last'.amount <= 0)
          => (last'.err # "none" /\ world' = world)
     /\ (last'.op = "DisburseLoan" /\ Addressed(world, last'.key)
           /\ LoanRead(world, last'.key).status = "APPROVED"
           /\ LoanRead(world, last'.key).amount <= 0)
          => (last'.err = "InvalidAmount" /\ world' = world)]_vars

\* C5: a lifecycle operation invoked on a loan whose status is not the one it
\* requires fails, and the loan record and all balances are as before.
C5_WrongStatusRejected ==
  [][(/\ last'.op \in DOMAIN Required
      /\ Addressed(world, last'.key)
      /\ LoanRead(world, last'.key).status # Required[last'.op])
     => (last'.err = "InvalidStateTransition" /\ world' = world)]_vars

\* MarkAsDefaulted was invoked on a PENDING loan and failed
C5_Witness ==
  /\ last.op = "MarkAsDefaulted"
  /\ last.err = "InvalidStateTransition"
  /\ world[last.key].kind = "loan"
  /\ world[last.key].status = "PENDING"

\* The world state after InitLedger(), RequestLoan("L1","B1",1000,10,12,"car"),
\* ApproveLoan("L1","HDFC") and DisburseLoan("L1") on the empty ledger.
ScenarioSeeded == Commit([k \in Keys |-> Absent], InitLedger.writes)
ScenarioRequested ==
  Commit(ScenarioSeeded,
         RequestLoan(ScenarioSeeded, "L1", "B1", 1000, 10, 12, "car", TxID).writes)
ScenarioApproved ==
  Commit(ScenarioRequested,
         ApproveLoan(ScenarioRequested, "L1", "HDFC", TxID).writes)
ScenarioDisbursed ==
  Commit(ScenarioApproved, DisburseLoan(ScenarioApproved, "L1", TxID).writes)

\* RepayLoan("L1", 1100) is invoked on the disbursed scenario
ScenarioRepay ==
  /\ last'.op = "RepayLoan" /\ last'.key = "L1" /\ last'.amount = 1100
  /\ world = ScenarioDisbursed
  /\ world["L1"].kind = "loan" /\ world["L1"].status = "ACTIVE"
  /\ BalanceOf(world, "B1") = 1000 /\ BalanceOf(world, "HDFC") = 499000

\* C6 (as claimed): after the scenario RepayLoan("L1", 1100) succeeds, moves
\* 1100 from B1 to HDFC and leaves remainingBalance = 0, status = REPAID.
C6_RepaySucceeds ==
  [][ScenarioRepay =>
       /\ last'.err = "none"
       /\ BalanceOf(world', "B1") = BalanceOf(world, "B1") - 1100
       /\ BalanceOf(world', "HDFC") = BalanceOf(world, "HDFC") + 1100
       /\ world'["L1"].remainingBalance = 0
       /\ world'["L1"].status = "REPAID"]_vars

\* C6 (amended): after the scenario RepayLoan("L1", 1100) fails with
\* insufficient funds, B1 holding only the 1000 disbursed to it: no balance
\* changes and the loan stays ACTIVE with remainingBalance = 1100.
C6_RepayInsufficientFunds ==
  [][ScenarioRepay =>
       /\ last'.err = "InsufficientFunds"
       /\ world' = world
       /\ world'["L1"].remainingBalance = 1100
       /\ world'["L1"].status = "ACTIVE"]_vars

\* RepayLoan("L1", 1100) was invoked on the disbursed scenario and failed
C6_Witness ==
  /\ world = ScenarioDisbursed
  /\ world["L1"].status = "ACTIVE" /\ world["L1"].remainingBalance = 1100
  /\ BalanceOf(world, "B1") = 1000
  /\ last.op = "RepayLoan" /\ last.key = "L1" /\ last.amount = 1100
  /\ last.err = "InsufficientFunds"

\* C7: a successful DisburseLoan on an APPROVED loan lowers the lender's
\* balance by the loan's amount, raises the borrower's balance by the loan's
\* amount, changes no other account and sets the status to ACTIVE.
C7_DisburseMovesAmount ==
  [][(/\ last'.op = "DisburseLoan" /\ last'.err = "none"
      /\ world[last'.key].kind = "loan"
      /\ world[last'.key].status = "APPROVED")
     => LET loan == world[last'.key] IN
        /\ BalanceOf(world', loan.lenderId)
             = BalanceOf(world, loan.lenderId) - loan.amount
        /\ BalanceOf(world', loan.borrowerId)
             = BalanceOf(world, loan.borrowerId) + loan.amount
        /\ \A k \in Keys \ {loan.lenderId, loan.borrowerId} :
             world[k].kind = "balance" => world'[k] = world[k]
        /\ CheckLoanStatus(world', last'.key).ret = "ACTIVE"]_vars

\* the token transfer DisburseLoan or RepayLoan attempts on a loan in the
\* required status
TransferOf(w, op, k, amount) ==
  IF op = "DisburseLoan"
  THEN TransferTokens(w, LoanRead(w, k).lenderId, LoanRead(w, k).borrowerId,
                      LoanRead(w, k).amount)
  ELSE TransferTokens(w, LoanRead(w, k).borrowerId, LoanRead(w, k).lenderId,
                      amount)

\* C8: when the token transfer inside DisburseLoan or RepayLoan fails the
\* invocation fails with the transfer's error and nothing changes; and no
\* invocation that fails has issued a write.
C8_NoWriteBeforeValidation ==
  [][/\ (/\ last'.op \in {"DisburseLoan", "RepayLoan"}
         /\ Addressed(world, last'.key)
         /\ LoanRead(world, last'.key).status = Required[last'.op]
         /\ (last'.op = "RepayLoan"
               => last'.amount <= LoanRead(world, last'.key).remainingBalance)
         /\ TransferOf(world, last'.op, last'.key, last'.amount).err # "none")
        => /\ last'.err = TransferOf(world, last'.op, last'.key, last'.amount).err
           /\ last'.writes = <<>>
           /\ world' = world
     /\ last'.err # "none" => (last'.writes = <<>> /\ world' = world)]_vars

\* DisburseLoan was invoked on an APPROVED loan whose lender could not pay
C8_Witness ==
  /\ last.op = "DisburseLoan"
  /\ last.err \in {"InsufficientFunds", "NotFound"}
  /\ world[last.key].kind = "loan"
  /\ world[last.key].status = "APPROVED"
  /\ world[last.key].auditHistory # <<>>

\* C9: RepayLoan on an ACTIVE loan with an amount above remainingBalance
\* fails, and the loan record and every balance are unchanged.
C9_ExcessRepaymentRejected ==
  [][(/\ last'.op = "RepayLoan"
      /\ Addressed(world, last'.key)
      /\ LoanRead(world, last'.key).status = "ACTIVE"
      /\ last'.amount > LoanRead(world, last'.key).remainingBalance)
     => (last'.err = "InvalidAmount" /\ world' = world)]_vars

\* RepayLoan was invoked on an ACTIVE loan with more than it owes and failed
C9_Witness ==
  /\ last.op = "RepayLoan"
  /\ last.err = "InvalidAmount"
  /\ world[last.key].kind = "loan"
  /\ world[last.key].status = "ACTIVE"
  /\ last.amount > world[last.key].remainingBalance

\* C10: a successful RepayLoan(amount) moves amount from borrower to lender
\* and lowers remainingBalance by amount, a partial repayment keeps the loan
\* ACTIVE, and in every state REPAID implies remainingBalance = 0 and ACTIVE
\* implies remainingBalance > 0.
C10_RepaidExactlyAtZero ==
  /\ [](\A k \in Keys :
          world[k].kind = "loan" =>
            /\ world[k].status = "REPAID" => world[k].remainingBalance = 0
            /\ world[k].status = "ACTIVE" => world[k].remainingBalance > 0)
  /\ [][(/\ last'.op = "RepayLoan" /\ last'.err = "none"
         /\ world[last'.key].kind = "loan")
        => LET loan == world[last'.key] IN
           /\ BalanceOf(world', loan.borrowerId)
                = BalanceOf(world, loan.borrowerId) - last'.amount
           /\ BalanceOf(world', loan.lenderId)
                = BalanceOf(world, loan.lenderId) + last'.amount
           /\ LoanRead(world', last'.key).remainingBalance
                = loan.remainingBalance - last'.amount
           /\ (0 < last'.amount /\ last'.amount < loan.remainingBalance)
                => LoanRead(world', last'.key).status = "ACTIVE"
           /\ LoanRead(world', last'.key).status = "REPAID"
                <=> LoanRead(world', last'.key).remainingBalance = 0]_vars


\* C11: RequestLoan succeeds exactly when no record exists under loanId; on
\* success the new loan is PENDING with empty lenderId, defaulted = false,
\* repaymentDue = remainingBalance = amount * (1 + interestRate/100) and one
\* audit entry; on a duplicate loanId it fails with AlreadyExists and nothing
\* changes.
C11_RequestCreatesPending ==
  [][last'.op = "RequestLoan" =>
       /\ last'.err = "none" <=> world[last'.key] = Absent
       /\ last'.err = "none" =>
            /\ world'[last'.key].kind = "loan"
            /\ world'[last'.key].loanId = last'.key
            /\ world'[last'.key].status = "PENDING"
            /\ world'[last'.key].lenderId = ""
            /\ world'[last'.key].defaulted = FALSE
            /\ world'[last'.key].remainingBalance = world'[last'.key].repaymentDue
            /\ 100 * world'[last'.key].repaymentDue
                 = world'[last'.key].amount * (100 + world'[last'.key].interestRate)
            /\ Len(world'[last'.key].auditHistory) = 1
            /\ \A k \in Keys \ {last'.key} : world'[k] = world[k]
       /\ last'.err # "none" =>
            /\ last'.err = "AlreadyExists"
            /\ world' = world]_vars

\* RequestLoan was invoked with the loanId of an existing loan and failed
C11_Witness ==
  /\ last.op = "RequestLoan"
  /\ last.err = "AlreadyExists"
  /\ world[last.key].kind = "loan"
  /\ world[last.key].loanId = last.key

IsLoan(w, k) == w[k].kind = "loan" /\ w[k].loanId = k

\* s is an initial segment of t
IsPrefix(s, t) == Len(s) <= Len(t) /\ SubSeq(t, 1, Len(s)) = s

\* C13: a loan record, once created, is read under its loanId in every later
\* state with the same loanId, borrowerId, amount, interestRate, duration and
\* repaymentDue.
C13_LoanIdentityImmutable ==
  [][\A k \in Keys :
       IsLoan(world, k) =>
         /\ GetLoan(world', k).err = "none"
         /\ LoanRead(world', k).loanId = world[k].loanId
         /\ LoanRead(world', k).borrowerId = world[k].borrowerId
         /\ LoanRead(world', k).amount = world[k].amount
         /\ LoanRead(world', k).interestRate = world[k].interestRate
         /\ LoanRead(world', k).duration = world[k].duration
         /\ LoanRead(world', k).repaymentDue = world[k].repaymentDue]_vars

\* the operations that write the loan they address
Mutating ==
  {"ApproveLoan", "DisburseLoan", "RepayLoan", "MarkAsDefaulted", "AddCollateral"}

\* C14: the audit history read under a loan's key only grows at its end: a
\* successful mutating operation on the loan appends exactly one entry, every
\* other invocation leaves it unchanged.
C14_AuditAppendOnly ==
  [][\A k \in Keys :
       IsLoan(world, k) =>
         /\ IsPrefix(world[k].auditHistory, GetLoanHistory(world', k).ret)
         /\ IF last'.op \in Mutating /\ last'.key = k /\ last'.err = "none"
            THEN Len(GetLoanHistory(world', k).ret) = Len(world[k].auditHistory) + 1
            ELSE GetLoanHistory(world', k).ret = world[k].auditHistory]_vars

\* C15: MarkAsDefaulted succeeds only on an ACTIVE loan, sets status =
\* DEFAULTED and defaulted = true and changes neither a balance nor
\* remainingBalance; a loan's defaulted flag is true exactly when its status
\* is DEFAULTED; and once the flag read under a loan's key is true it stays
\* true.
C15_DefaultedFlag ==
  /\ [](\A k \in Keys :
          world[k].kind = "loan" =>
            (world[k].defaulted <=> world[k].status = "DEFAULTED"))
  /\ [][(last'.op = "MarkAsDefaulted" /\ last'.err = "none") =>
          /\ Addressed(world, last'.key)
          /\ LoanRead(world, last'.key).status = "ACTIVE"
          /\ LoanRead(world', last'.key).status = "DEFAULTED"
          /\ LoanRead(world', last'.key).defaulted
          /\ LoanRead(world', last'.key).remainingBalance
               = LoanRead(world, last'.key).remainingBalance
          /\ \A k \in Keys \ {last'.key} : world'[k] = world[k]]_vars
  /\ [][\A k \in Keys :
          (world[k].kind = "loan" /\ world[k].defaulted)
            => LoanRead(world', k).defaulted]_vars


\* the identifiers passed as borrower or lender: the accounts of a transfer
Parties == BorrowerArgs \cup LenderArgs

\* C16: a transfer to an account with no record takes its balance as 0 and
\* leaves it with the amount (so does the transfer DisburseLoan makes to a
\* borrower without a record); a transfer from an account with no record
\* fails NotFound and writes nothing; GetBalance on an account with no record
\* fails.
C16_AutoCreateCreditOnly ==
  /\ LET absent == {k \in Parties : world[k].kind = "absent"} IN
     /\ \A from \in absent, to \in Parties, amount \in LoanAmounts :
          TransferTokens(world, from, to, amount) = Fail("NotFound")
     /\ \A to \in absent, from \in Parties \ absent, amount \in LoanAmounts :
          GetBalance(world, from).ret >= amount
            => /\ TransferTokens(world, from, to, amount).err = "none"
               /\ Commit(world, TransferTokens(world, from, to, amount).writes)[to]
                    = TokenBalance(to, amount)
  /\ \A loanID \in LoanArgs :
       (/\ world[loanID].kind = "loan"
        /\ world[loanID].status = "APPROVED"
        /\ world[world[loanID].borrowerId] = Absent
        /\ GetBalance(world, world[loanID].lenderId).ret >= world[loanID].amount)
       => /\ DisburseLoan(world, loanID, TxID).err = "none"
          /\ Commit(world, DisburseLoan(world, loanID, TxID).writes)[world[loanID].borrowerId]
               = TokenBalance(world[loanID].borrowerId, world[loanID].amount)
  /\ \A account \in Parties :
       world[account].kind = "absent" => GetBalance(world, account) = Fail("NotFound")

\* DisburseLoan created the record of a borrower that had none
C16_Witness ==
  /\ last.op = "DisburseLoan"
  /\ last.err = "none"
  /\ world[last.key].kind = "loan"
  /\ world[last.key].borrowerId = "B1"
  /\ world[last.key].lenderId = "HDFC"
  /\ world["B1"] = TokenBalance("B1", world[last.key].amount)
  /\ world["L2"] = Absent


\* the sum of all token balances
RECURSIVE SumBalances(_, _)
SumBalances(w, ks) ==
  IF ks = {} THEN 0
  ELSE LET k == CHOOSE x \in ks : TRUE
       IN BalanceOf(w, k) + SumBalances(w, ks \ {k})

\* C17: AddCollateral succeeds on every existing record and changes only the
\* collateral and the audit history read under that key: status, lenderId,
\* remainingBalance, defaulted and every account balance are unchanged; on a
\* key without a record it fails and writes nothing.
C17_AddCollateralFrame ==
  [][last'.op = "AddCollateral" =>
       IF world[last'.key] = Absent
       THEN last'.err = "NotFound" /\ last'.writes = <<>> /\ world' = world
       ELSE /\ last'.err = "none"
            /\ LoanRead(world', last'.key).status = LoanRead(world, last'.key).status
            /\ LoanRead(world', last'.key).lenderId = LoanRead(world, last'.key).lenderId
            /\ LoanRead(world', last'.key).remainingBalance
                 = LoanRead(world, last'.key).remainingBalance
            /\ LoanRead(world', last'.key).defaulted = LoanRead(world, last'.key).defaulted
            /\ \A k \in Keys : BalanceOf(world', k) = BalanceOf(world, k)]_vars

\* C19: no loan lifecycle operation changes the sum of all account balances.
C19_SupplyConserved ==
  [][last'.op \in Mutating \cup {"RequestLoan"} =>
       SumBalances(world', Keys) = SumBalances(world, Keys)]_vars


\* the entries of an audit history that record the event
RECURSIVE Entries(_, _)
Entries(h, event) ==
  IF h = <<>> THEN <<>>
  ELSE IF Head(h).event = event THEN <<Head(h)>> \o Entries(Tail(h), event)
  ELSE Entries(Tail(h), event)

\* C20: a loan is disbursed at most once, and only after the lender that is
\* debited approved it: every successful DisburseLoan starts from an
\* APPROVED loan that was never disbursed and whose approval names its
\* lenderId, debits that lender, and no loan record ever shows two
\* disbursements.
C20_DisbursedOnce ==
  /\ [](\A k \in Keys :
          world[k].kind = "loan" =>
            /\ Len(Entries(world[k].auditHistory, "Loan disbursed")) <= 1
            /\ world[k].status \in {"PENDING", "APPROVED"}
                 => Entries(world[k].auditHistory, "Loan disbursed") = <<>>)
  /\ [][(last'.op = "DisburseLoan" /\ last'.err = "none") =>
          /\ Addressed(world, last'.key)
          /\ LoanRead(world, last'.key).status = "APPROVED"
          /\ LoanRead(world, last'.key).disbursementDate = 0
          /\ Entries(LoanRead(world, last'.key).auditHistory, "Loan disbursed") = <<>>
          /\ Len(Entries(LoanRead(world, last'.key).auditHistory, "Loan approved by")) = 1
          /\ Entries(LoanRead(world, last'.key).auditHistory, "Loan approved by")[1].arg
               = LoanRead(world, last'.key).lenderId
          /\ last'.writes[1]
               = UpdateBalance(LoanRead(world, last'.key).lenderId,
                               GetBalance(world, LoanRead(world, last'.key).lenderId).ret
                                 - LoanRead(world, last'.key).amount)
          /\ LoanRead(world', last'.key).status = "ACTIVE"]_vars

\* a loan approved by HDFC was disbursed, and a second DisburseLoan failed
C20_Witness ==
  /\ last.op = "DisburseLoan"
  /\ last.err = "InvalidStateTransition"
  /\ world[last.key].kind = "loan"
  /\ world[last.key].status = "ACTIVE"
  /\ Len(Entries(world[last.key].auditHistory, "Loan disbursed")) = 1


\* ---------------------------------------------------------------- concurrency
\* Invocations submitted concurrently: each is simulated on the committed
\* world state, the host records the version of every key it read, and when
\* the transaction is ordered the host commits its writes only if none of
\* those keys was written in between.

\* ReadKeys of a contract that works on a copy of the loan kept from an
\* earlier invocation instead of reading it
ReadKeys_CachedLoan(w, op, loanID, party) ==
  IF op = "ApproveLoan" THEN {party}
  ELSE IF op = "MarkAsDefaulted" THEN {}
  ELSE {LoanRead(w, loanID).lenderId, LoanRead(w, loanID).borrowerId}

\* the keys an operation reads with GetState when it runs to its end
ReadKeys(w, op, loanID, party) ==
  IF op = "ApproveLoan" THEN {loanID, party}
  ELSE IF op = "MarkAsDefaulted" THEN {loanID}
  ELSE {loanID, LoanRead(w, loanID).lenderId, LoanRead(w, loanID).borrowerId}

\* the lifecycle operation op run on w
Simulate(w, op, loanID, party, amount) ==
  IF op = "ApproveLoan" THEN ApproveLoan(w, loanID, party, TxID)
  ELSE IF op = "DisburseLoan" THEN DisburseLoan(w, loanID, TxID)
  ELSE IF op = "RepayLoan" THEN RepayLoan(w, loanID, amount, TxID)
  ELSE MarkAsDefaulted(w, loanID, TxID)

\* the world states the races start from: L1 lent by HDFC to B1 and
\* disbursed, L2 requested by B1; and the same with L2 approved by HDFC and
\* disbursed too, so that B1 holds 2000
ScenarioSecondRequested ==
  Commit(ScenarioDisbursed,
         RequestLoan(ScenarioDisbursed, "L2", "B1", 1000, 10, 12, "car", TxID).writes)
ScenarioSecondApproved ==
  Commit(ScenarioSecondRequested,
         ApproveLoan(ScenarioSecondRequested, "L2", "HDFC", TxID).writes)
ScenarioSecondDisbursed ==
  Commit(ScenarioSecondApproved,
         DisburseLoan(ScenarioSecondApproved, "L2", TxID).writes)

InitRace ==
  /\ world \in {ScenarioSecondRequested, ScenarioSecondDisbursed}
  /\ txSeq = 0
  /\ last = Invocation("none", "", "", 0, Ok(<<>>, "none"))
  /\ pending = <<>>
  /\ version = [k \in Keys |-> 0]

\* An invocation is simulated: a failure is returned to the client at once, a
\* success waits to be ordered
Submit(op, loanID, party, amount) ==
  LET r == Simulate(world, op, loanID, party, amount) IN
  /\ txSeq < MaxSubmit
  /\ Len(pending) < MaxPending
  /\ txSeq' = txSeq + 1
  /\ pending' =
       IF r.err = "none"
       THEN Append(pending,
              [op |-> op, key |-> loanID, party |-> party, amount |-> amount,
               reads |-> {<<k, version[k]>> : k \in ReadKeys(world, op, loanID, party)},
               writes |-> r.writes])
       ELSE pending
  /\ last' = Invocation(op, loanID, party, amount,
                        IF r.err = "none" THEN [err |-> "pending", writes |-> <<>>]
                        ELSE r)
  /\ UNCHANGED <<world, version>>

SubmitApproveLoan ==
  \E loanID \in RaceLoans, lenderID \in RaceLenders :
    Submit("ApproveLoan", loanID, lenderID, 0)

SubmitDisburseLoan ==
  \E loanID \in RaceLoans : Submit("DisburseLoan", loanID, "", 0)

SubmitRepayLoan ==
  \E loanID \in RaceLoans, amount \in RaceAmounts :
    Submit("RepayLoan", loanID, "", amount)

SubmitMarkAsDefaulted ==
  \E loanID \in RaceLoans : Submit("MarkAsDefaulted", loanID, "", 0)

\* The host orders a pending transaction and validates its read set
CommitTx ==
  \E i \in 1..Len(pending) :
    LET p == pending[i]
        valid == \A rd \in p.reads : version[rd[1]] = rd[2]
        written == {p.writes[j].key : j \in 1..Len(p.writes)}
    IN /\ world' = IF valid THEN Commit(world, p.writes) ELSE world
       /\ version' = IF valid
                     THEN [k \in Keys |-> IF k \in written THEN version[k] + 1
                                           ELSE version[k]]
                     ELSE version
       /\ pending' = SubSeq(pending, 1, i - 1) \o SubSeq(pending, i + 1, Len(pending))
       /\ last' = Invocation(p.op, p.key, p.party, p.amount,
                     [err |-> IF valid THEN "none" ELSE "ReadConflict",
                      writes |-> IF valid THEN p.writes ELSE <<>>])
       /\ UNCHANGED txSeq

NextRace ==
  \/ SubmitApproveLoan
  \/ SubmitDisburseLoan
  \/ SubmitRepayLoan
  \/ SubmitMarkAsDefaulted
  \/ CommitTx

SpecRace == InitRace /\ [][NextRace]_vars

\* C18: of concurrently submitted invocations that need the same source
\* status of a loan at most one takes effect: a transaction commits only if
\* it does what the operation does on the world state it commits to, a
\* rejected one changes nothing, and every loan has at most one approval, a
\* single terminal status and a remaining balance >= 0.
C18_OneOfConflictingCommits ==
  /\ [](\A k \in RaceLoans :
          world[k].kind = "loan" =>
            /\ Len(Entries(world[k].auditHistory, "Loan approved by")) <= 1
            /\ Len(Entries(world[k].auditHistory, "Loan marked as defaulted")) <= 1
            /\ (world[k].status = "REPAID"
                 => Entries(world[k].auditHistory, "Loan marked as defaulted") = <<>>)
            /\ (world[k].status = "DEFAULTED"
                 => world[k].auditHistory[Len(world[k].auditHistory)].event
                      = "Loan marked as defaulted")
            /\ world[k].remainingBalance >= 0)
  /\ [][/\ (Len(pending') < Len(pending) /\ last'.err = "none")
             => /\ Simulate(world, last'.op, last'.key, last'.party, last'.amount).err
                     = "none"
                /\ Simulate(world, last'.op, last'.key, last'.party, last'.amount).writes
                     = last'.writes
          /\ (last'.err # "none" => world' = world)]_vars

\* of two ApproveLoan submitted for the same PENDING loan with different
\* lenders, one committed and the other was rejected
C18_Witness ==
  /\ last.op = "ApproveLoan"
  /\ last.err = "ReadConflict"
  /\ world[last.key].kind = "loan"
  /\ world[last.key].status = "APPROVED"
  /\ world[last.key].lenderId # last.party

====
